---- MODULE Spec2Model ----
(***************************************************************************)
(* TorrentMate / MkTorrent: the content classifier (ContentAnalyzer) and   *)
(* the metadata normalizer (MediaInfo), and the run of main() that chains   *)
(* them with the renderer and the packager, modelled from the Python       *)
(* sources.                                                                *)
(*                                                                         *)
(* Python strings are sequences of one-character strings, so that regular  *)
(* expression searches, lower()/upper(), int() and str() are computed on   *)
(* the characters.  A Python dict is a function whose DOMAIN is the set of *)
(* keys present ('k' in d  is  "k" \in DOMAIN d).                          *)
(***************************************************************************)
EXTENDS Integers, Sequences, FiniteSets, TLC

VARIABLES
    folder,        \* the directory tree behind folder_path (name, files, subdirs)
    now_year,      \* what datetime.now().year gave the analyzer (0 before it ran)
    analyzer,      \* the ContentAnalyzer object's fields (a dict), {} before __init__
    first_video,   \* MkTorrent.__init__: first_video
    ca_pc,         \* position inside MkTorrent.__init__ (classification part)
    probe_info,    \* self.info of MediaInfo: the parsed JSON of the probe
    track_idx,     \* position of the for loop of _extract_metadata
    info,          \* the dict built by _extract_metadata
    mi_pc,         \* position inside MediaInfo._extract_metadata
    pl_pc,         \* position inside main() / MkTorrent ("idle": no run of main)
    torrent_title, \* self.torrent_title (the empty string before it is rendered)
    cwd_files,     \* the files of the working directory: name -> content
    outcome,       \* nfo_success, bbcode_success, torrent_success once computed
    calls,         \* the stages invoked so far, in order
    exit_code      \* the exit code of the process (-1 while it runs)

vars == <<folder, now_year, analyzer, first_video, ca_pc, probe_info, track_idx, info, mi_pc,
          pl_pc, torrent_title, cwd_files, outcome, calls, exit_code>>

ca_vars == <<folder, now_year, analyzer, first_video, ca_pc>>

mi_vars == <<probe_info, track_idx, info, mi_pc>>

pl_vars == <<pl_pc, torrent_title, cwd_files, outcome, calls, exit_code>>

(***************************************************************************)
(* Python str and dict primitives                                          *)
(***************************************************************************)
upper_letters == <<"A", "B", "C", "D", "E", "F", "G", "H", "I", "J", "K", "L", "M", "N", "O", "P", "Q", "R", "S", "T", "U", "V", "W", "X", "Y", "Z">>

lower_letters == <<"a", "b", "c", "d", "e", "f", "g", "h", "i", "j", "k", "l", "m", "n", "o", "p", "q", "r", "s", "t", "u", "v", "w", "x", "y", "z">>

digit_chars == <<"0", "1", "2", "3", "4", "5", "6", "7", "8", "9">>

\* str.lower() and str.upper() as character tables
lower_table ==
    [c \in {upper_letters[i] : i \in 1..Len(upper_letters)} |->
        lower_letters[CHOOSE i \in 1..Len(upper_letters) : upper_letters[i] = c]]

upper_table ==
    [c \in {lower_letters[i] : i \in 1..Len(lower_letters)} |->
        upper_letters[CHOOSE i \in 1..Len(lower_letters) : lower_letters[i] = c]]

digit_table ==
    [c \in {digit_chars[i] : i \in 1..Len(digit_chars)} |->
        (CHOOSE i \in 1..Len(digit_chars) : digit_chars[i] = c) - 1]

\* c.lower() for one character
LowerChar(c) == IF c \in DOMAIN lower_table THEN lower_table[c] ELSE c

\* c.upper() for one character
UpperChar(c) == IF c \in DOMAIN upper_table THEN upper_table[c] ELSE c

\* s.lower()
Lower(s) == [i \in 1..Len(s) |-> LowerChar(s[i])]

\* s.upper()
Upper(s) == [i \in 1..Len(s) |-> UpperChar(s[i])]

\* regex class \d
IsDigit(c) == c \in DOMAIN digit_table

\* regex class \s, and the characters str.strip() removes
IsSpace(c) == c = " "

DigitValue(c) == digit_table[c]

\* int(s) for a string of decimal digits
RECURSIVE StrToInt(_)
StrToInt(s) ==
    IF Len(s) = 0 THEN 0
    ELSE 10 * StrToInt(SubSeq(s, 1, Len(s) - 1)) + DigitValue(s[Len(s)])

\* str(n) / f"{n}" for a non-negative integer
RECURSIVE IntToStr(_)
IntToStr(n) ==
    IF n < 10 THEN <<digit_chars[n + 1]>>
    ELSE IntToStr(n \div 10) \o <<digit_chars[(n % 10) + 1]>>

\* needle in hay
Contains(hay, needle) ==
    \E i \in 1..(Len(hay) - Len(needle) + 1) :
        SubSeq(hay, i, i + Len(needle) - 1) = needle

\* s.endswith(suffix)
EndsWith(s, suffix) ==
    /\ Len(s) >= Len(suffix)
    /\ SubSeq(s, Len(s) - Len(suffix) + 1, Len(s)) = suffix

\* s.strip()
RECURSIVE Strip(_)
Strip(s) ==
    IF Len(s) = 0 THEN s
    ELSE IF IsSpace(s[1]) THEN Strip(Tail(s))
    ELSE IF IsSpace(s[Len(s)]) THEN Strip(SubSeq(s, 1, Len(s) - 1))
    ELSE s

\* s.replace(old, new), leftmost non-overlapping occurrences
RECURSIVE Replace(_, _, _)
Replace(s, old, new) ==
    IF Len(s) < Len(old) THEN s
    ELSE IF SubSeq(s, 1, Len(old)) = old
         THEN new \o Replace(SubSeq(s, Len(old) + 1, Len(s)), old, new)
         ELSE <<s[1]>> \o Replace(Tail(s), old, new)

\* s.split(' ')[0]
RECURSIVE FirstToken(_)
FirstToken(s) ==
    IF Len(s) = 0 \/ s[1] = " " THEN <<>>
    ELSE <<s[1]>> \o FirstToken(Tail(s))

\* d.get(k, default)
Get(d, k, default) == IF k \in DOMAIN d THEN d[k] ELSE default

\* d[k] = v
Put(d, k, v) == [x \in (DOMAIN d) \cup {k} |-> IF x = k THEN v ELSE d[x]]

\* the empty dict {}
EmptyDict == [x \in {} |-> <<>>]

Min(S) == CHOOSE x \in S : \A y \in S : x <= y


\* main() is not running: the classifier or the normalizer is exercised alone
NoRun ==
    /\ pl_pc = "idle"
    /\ torrent_title = <<>>
    /\ cwd_files = EmptyDict
    /\ outcome = EmptyDict
    /\ calls = <<>>
    /\ exit_code = -1

(***************************************************************************)
(* ContentAnalyzer (src/mktorrent/contentanalyzer.py)                      *)
(***************************************************************************)
\* video_extensions = ['.mkv', '.mp4', '.avi']
video_extensions == {<<".", "m", "k", "v">>, <<".", "m", "p", "4">>, <<".", "a", "v", "i">>}

\* any(file.lower().endswith(ext) for ext in video_extensions)
IsVideoFile(file) == \E ext \in video_extensions : EndsWith(Lower(file), ext)

\* position of the first character at or after p that is not whitespace
\* (Len(s) + 1 when there is none): where a greedy \s* starting at p ends
RECURSIVE SkipSpaces(_, _)
SkipSpaces(s, p) ==
    IF p > Len(s) \/ ~IsSpace(s[p]) THEN p ELSE SkipSpaces(s, p + 1)

\* position just after the greedy digit run \d* starting at p
RECURSIVE SkipDigits(_, _)
SkipDigits(s, p) ==
    IF p > Len(s) \/ ~IsDigit(s[p]) THEN p ELSE SkipDigits(s, p + 1)

\* re.search(r'[sS]\d+[eE]\d+', s, re.IGNORECASE)
SearchSxxExx(s) ==
    \E i \in 1..Len(s) :
        /\ LowerChar(s[i]) = "s"
        /\ LET q == SkipDigits(s, i + 1)
           IN  /\ q > i + 1
               /\ q + 1 <= Len(s)
               /\ LowerChar(s[q]) = "e"
               /\ IsDigit(s[q + 1])

\* re.search(word + r's?\s*\d+', s, re.IGNORECASE) when plural, and
\* re.search(word + r'\s*\d+', s, re.IGNORECASE) otherwise
SearchWordNumber(s, word, plural) ==
    \E i \in 1..(Len(s) - Len(word) + 1) :
        /\ Lower(SubSeq(s, i, i + Len(word) - 1)) = word
        /\ LET after == i + Len(word)
           IN  \E p \in {after, after + 1} :
                  /\ p = after + 1 =>
                        /\ plural
                        /\ after <= Len(s)
                        /\ LowerChar(s[after]) = "s"
                  /\ LET q == SkipSpaces(s, p)
                     IN  q <= Len(s) /\ IsDigit(s[q])

\* season_patterns of _count_seasons, in list order
season_patterns ==
    << [re |-> "word", word |-> <<"s", "a", "i", "s", "o", "n">>, plural |-> FALSE],
       [re |-> "word", word |-> <<"s", "e", "a", "s", "o", "n">>, plural |-> FALSE],
       [re |-> "word", word |-> <<"s", "a", "i", "s", "o", "n">>, plural |-> TRUE],
       [re |-> "word", word |-> <<"s", "e", "a", "s", "o", "n">>, plural |-> TRUE] >>

\* series_patterns of _detect_content_type, in list order
series_patterns ==
    << [re |-> "SxxExx", word |-> <<>>, plural |-> FALSE] >> \o season_patterns

\* re.search(pattern, s, re.IGNORECASE)
ReSearch(pattern, s) ==
    IF pattern.re = "SxxExx" THEN SearchSxxExx(s)
    ELSE SearchWordNumber(s, pattern.word, pattern.plural)

MatchesAny(patterns, s) == \E k \in 1..Len(patterns) : ReSearch(patterns[k], s)

\* os.walk(folder_path): the path (names below the root) of every file
RECURSIVE WalkFiles(_, _)
WalkFiles(dir, prefix) ==
    {prefix \o <<f>> : f \in dir.files}
        \cup UNION {WalkFiles(sub, prefix \o <<sub.name>>) : sub \in dir.subdirs}

FileName(path) == path[Len(path)]

\* the video files os.walk meets
VideoFiles(dir) == {p \in WalkFiles(dir, <<>>) : IsVideoFile(FileName(p))}

\* faulty variant of DetectContentType: the marker test reads every file name, not
\* only the names of video files
DetectContentType_AnyFile(dir) ==
    IF MatchesAny(series_patterns, dir.name) THEN "serie"
    ELSE IF \E sub \in dir.subdirs : MatchesAny(series_patterns, sub.name) THEN "serie"
    ELSE IF \E p \in WalkFiles(dir, <<>>) : MatchesAny(series_patterns, FileName(p)) THEN "serie"
    ELSE IF Cardinality(VideoFiles(dir)) > 1 THEN "serie"
    ELSE "film"

\* ContentAnalyzer._detect_content_type
DetectContentType(dir) ==
    IF MatchesAny(series_patterns, dir.name) THEN "serie"
    ELSE IF \E sub \in dir.subdirs : MatchesAny(series_patterns, sub.name) THEN "serie"
    ELSE IF \E p \in VideoFiles(dir) : MatchesAny(series_patterns, FileName(p)) THEN "serie"
    ELSE IF Cardinality(VideoFiles(dir)) > 1 THEN "serie"
    ELSE "film"

\* r'\((\d{4})(?:-\d{4})?\)' matches at position k
ParenYearAt(s, k) ==
    /\ k + 5 <= Len(s)
    /\ s[k] = "("
    /\ \A d \in 1..4 : IsDigit(s[k + d])
    /\ \/ s[k + 5] = ")"
       \/ /\ k + 10 <= Len(s)
          /\ s[k + 5] = "-"
          /\ \A d \in 6..9 : IsDigit(s[k + d])
          /\ s[k + 10] = ")"

\* r'\s+(\d{4})(?:\s|$)' matches after a group (.+?) that ends at j
SpaceYearAfter(s, j) ==
    LET k == SkipSpaces(s, j + 1)
    IN  /\ k > j + 1
        /\ k + 3 <= Len(s)
        /\ \A d \in 0..3 : IsDigit(s[k + d])
        /\ (k + 4 > Len(s) \/ IsSpace(s[k + 4]))

\* faulty variant of ExtractTitleYear: the year captured from a range is its last one
ExtractTitleYear_RangeEnd(folder_name) ==
    LET paren == {j \in 1..Len(folder_name) :
                     ParenYearAt(folder_name, SkipSpaces(folder_name, j + 1))}
    IN  IF paren # {}
        THEN LET j == Min(paren)
                 k == SkipSpaces(folder_name, j + 1)
             IN  [title |-> Strip(SubSeq(folder_name, 1, j)),
                  year |-> IF folder_name[k + 5] = "-"
                           THEN SubSeq(folder_name, k + 6, k + 9)
                           ELSE SubSeq(folder_name, k + 1, k + 4)]
        ELSE [title |-> folder_name, year |-> <<>>]

\* ContentAnalyzer._extract_title_year: the lazy group (.+?) takes the
\* shortest prefix after which the rest of the pattern matches
ExtractTitleYear(folder_name) ==
    LET paren == {j \in 1..Len(folder_name) :
                     ParenYearAt(folder_name, SkipSpaces(folder_name, j + 1))}
        spaced == {j \in 1..Len(folder_name) : SpaceYearAfter(folder_name, j)}
    IN  IF paren # {}
        THEN LET j == Min(paren)
                 k == SkipSpaces(folder_name, j + 1)
             IN  [title |-> Strip(SubSeq(folder_name, 1, j)),
                  year |-> SubSeq(folder_name, k + 1, k + 4)]
        ELSE IF spaced # {}
        THEN LET j == Min(spaced)
                 k == SkipSpaces(folder_name, j + 1)
             IN  [title |-> Strip(SubSeq(folder_name, 1, j)),
                  year |-> SubSeq(folder_name, k, k + 3)]
        ELSE [title |-> folder_name, year |-> <<>>]

\* faulty variant of CountEpisodes: os.listdir instead of os.walk, the files of the
\* root directory only
CountEpisodes_RootOnly(dir) == Cardinality({f \in dir.files : IsVideoFile(f)})

\* ContentAnalyzer._count_episodes
CountEpisodes(dir) == Cardinality(VideoFiles(dir))

\* re.search(r'[sS](\d+)[eE]', file): the positions where it matches
SeasonTokenAt(s) ==
    {i \in 1..Len(s) :
        /\ s[i] \in {"s", "S"}
        /\ SkipDigits(s, i + 1) > i + 1
        /\ SkipDigits(s, i + 1) <= Len(s)
        /\ s[SkipDigits(s, i + 1)] \in {"e", "E"}}

\* int(match.group(1)) for the leftmost match
SeasonNumber(s) ==
    LET i == Min(SeasonTokenAt(s))
    IN  StrToInt(SubSeq(s, i + 1, SkipDigits(s, i + 1) - 1))

\* the season folders of _count_seasons
SeasonFolders(dir) == {sub \in dir.subdirs : MatchesAny(season_patterns, sub.name)}

\* max(1, season_count) at the end of _count_seasons
AtLeastOne(n) == IF n > 1 THEN n ELSE 1

\* faulty variant of CountSeasons: the season numbers of the file names are counted
\* first, the season folders only when there are none
CountSeasons_FileHintsFirst(dir) ==
    LET season_numbers ==
            {SeasonNumber(FileName(p)) :
                p \in {v \in VideoFiles(dir) : SeasonTokenAt(FileName(v)) # {}}}
    IN  IF season_numbers # {}
        THEN AtLeastOne(Cardinality(season_numbers))
        ELSE AtLeastOne(Cardinality(SeasonFolders(dir)))

\* faulty variant of CountSeasons: the set holds the digits as written, not int()
CountSeasons_TextTokens(dir) ==
    LET season_count == Cardinality(SeasonFolders(dir))
        season_numbers ==
            {LET s == FileName(p)
                 i == Min(SeasonTokenAt(s))
             IN  SubSeq(s, i + 1, SkipDigits(s, i + 1) - 1) :
                p \in {v \in VideoFiles(dir) : SeasonTokenAt(FileName(v)) # {}}}
    IN  IF season_count = 0
        THEN AtLeastOne(Cardinality(season_numbers))
        ELSE AtLeastOne(season_count)

\* ContentAnalyzer._count_seasons
CountSeasons(dir) ==
    LET season_count == Cardinality(SeasonFolders(dir))
        season_numbers ==
            {SeasonNumber(FileName(p)) :
                p \in {v \in VideoFiles(dir) : SeasonTokenAt(FileName(v)) # {}}}
    IN  IF season_count = 0
        THEN AtLeastOne(Cardinality(season_numbers))
        ELSE AtLeastOne(season_count)

\* faulty variant of EndYear: one year per season
EndYear_YearPerSeason(start_year, season_count, current_year) ==
    LET guess == start_year + AtLeastOne(season_count)
    IN  IF guess < current_year THEN guess ELSE current_year

\* min(start_year + max(1, season_count // 2), datetime.now().year)
EndYear(start_year, season_count, current_year) ==
    LET guess == start_year + AtLeastOne(season_count \div 2)
    IN  IF guess < current_year THEN guess ELSE current_year

\* ContentAnalyzer._determine_year_range (int() cannot raise: year is \d{4})
DetermineYearRange(year, season_count, current_year) ==
    IF year = <<>> THEN <<"U", "n", "k", "n", "o", "w", "n">>
    ELSE LET start_year == StrToInt(year)
         IN  IntToStr(start_year) \o <<"-">>
                \o IntToStr(EndYear(start_year, season_count, current_year))

\* year_range of the film branch of ContentAnalyzer.__init__
FilmYearRange(year) == year

\* faulty variant of NewContentAnalyzer: a film's episodes are the files of its folder
NewContentAnalyzer_FilmCountsFiles(dir, current_year) ==
    LET content_type == DetectContentType(dir)
        ty == ExtractTitleYear(dir.name)
    IN  IF content_type = "serie"
        THEN LET season_count == CountSeasons(dir)
             IN  [content_type |-> content_type,
                  title |-> ty.title,
                  year |-> ty.year,
                  episode_count |-> CountEpisodes(dir),
                  season_count |-> season_count,
                  year_range |-> DetermineYearRange(ty.year, season_count, current_year)]
        ELSE [content_type |-> content_type,
              title |-> ty.title,
              year |-> ty.year,
              episode_count |-> Cardinality(dir.files),
              season_count |-> 1,
              year_range |-> FilmYearRange(ty.year)]

\* ContentAnalyzer.__init__: the fields of the constructed object
NewContentAnalyzer(dir, current_year) ==
    LET content_type == DetectContentType(dir)
        ty == ExtractTitleYear(dir.name)
    IN  IF content_type = "serie"
        THEN LET season_count == CountSeasons(dir)
             IN  [content_type |-> content_type,
                  title |-> ty.title,
                  year |-> ty.year,
                  episode_count |-> CountEpisodes(dir),
                  season_count |-> season_count,
                  year_range |-> DetermineYearRange(ty.year, season_count, current_year)]
        ELSE [content_type |-> content_type,
              title |-> ty.title,
              year |-> ty.year,
              episode_count |-> 1,
              season_count |-> 1,
              year_range |-> FilmYearRange(ty.year)]

\* find_first_video_file: os.walk is top-down and os.listdir gives no order,
\* so the first video met is any video of the first directory, in walk
\* order, that holds one
RECURSIVE FirstVideoCandidates(_, _)
FirstVideoCandidates(dir, prefix) ==
    IF \E f \in dir.files : IsVideoFile(f)
    THEN {prefix \o <<f>> : f \in {g \in dir.files : IsVideoFile(g)}}
    ELSE UNION {FirstVideoCandidates(sub, prefix \o <<sub.name>>) : sub \in dir.subdirs}

(***************************************************************************)
(* Inputs of the classifier: bounded directory trees                       *)
(***************************************************************************)
\* most files of one directory, most immediate subdirectories of the root
MaxFiles == 2

MaxSubdirs == 2

\* names of the folder handed to the program
RootNames ==
    { <<"S", "h", "o", "w", " ", "(", "2", "0", "1", "0", "-", "2", "0", "1", "5", ")">>, <<"N", "e", "x", "t", " ", "(", "2", "0", "3", "1", ")">>, <<"S", "a", "i", "s", "o", "n", " ", "2">>,
      <<"F", "i", "l", "m">>, <<"O", "l", "d", " ", "1", "9", "8", "7">>, <<"S", "h", "o", "w", " ", "S", "1", "E", "1", " ", "(", "2", "0", "2", "6", ")">>, <<" ", "W", "i", "d", "e", " ", " ", "(", "2", "0", "0", "5", ")">>,
      <<"C", "u", "t", " ", "(", "1", "9", "8", "2", ")", " ", "F", "i", "n", "a", "l", " ", "(", "2", "0", "0", "7", ")">> }

\* names of files: videos with and without an S<NN>E token, and other files
FileNames ==
    { <<"e", "p", "1", ".", "m", "k", "v">>, <<"S", "0", "1", "E", "0", "1", ".", "m", "k", "v">>, <<"s", "1", "e", "0", "2", ".", "M", "P", "4">>, <<"S", "0", "2", "E", "0", "1", ".", "a", "v", "i">>,
      <<"S", "0", "3", "E", "0", "1", ".", "s", "r", "t">>, <<"n", "o", "t", "e", "s", ".", "t", "x", "t">> }

\* names of the immediate subdirectories
SubdirNames == { <<"S", "a", "i", "s", "o", "n", " ", "1">>, <<"s", "e", "a", "s", "o", "n", "s", " ", "2">>, <<"E", "x", "t", "r", "a", "s">> }

\* what a subdirectory may hold: at most one file and at most one deeper directory
SubdirFiles == { {}, {<<"S", "0", "2", "E", "0", "1", ".", "a", "v", "i">>} }

DeepDirs ==
    { [name |-> <<"S", "a", "i", "s", "o", "n", " ", "9">>, files |-> {<<"e", "p", "1", ".", "m", "k", "v">>}, subdirs |-> {}] }

\* what may stand under one subdirectory name
SubdirContents ==
    { [files |-> f, subdirs |-> d] :
        f \in SubdirFiles, d \in {{}} \cup {{x} : x \in DeepDirs} }

\* a directory of episodes of three more seasons, one file naming two episodes
SeasonPack ==
    [files |-> { <<"S", "0", "3", "E", "0", "1", ".", "m", "k", "v">>, <<"s", "0", "4", "e", "0", "1", ".", "m", "p", "4">>, <<"S", "0", "5", "E", "0", "1", ".", "S", "0", "6", "E", "0", "1", ".", "m", "k", "v">> }, subdirs |-> {}]

Absent == [files |-> {}, subdirs |-> {}, absent |-> TRUE]

\* what may stand under the given name: the season pack only under "Extras"
ContentsOf(n) ==
    SubdirContents \cup (IF n = <<"E", "x", "t", "r", "a", "s">> THEN {SeasonPack} ELSE {}) \cup {Absent}

\* sets of at most MaxSubdirs subdirectories, with pairwise different names
SubdirSets ==
    { { [name |-> n, files |-> pick[n].files, subdirs |-> pick[n].subdirs] :
            n \in {m \in SubdirNames : pick[m] # Absent} } :
        pick \in { p \in [SubdirNames -> SubdirContents \cup {SeasonPack, Absent}] :
                     /\ \A m \in SubdirNames : p[m] \in ContentsOf(m)
                     /\ Cardinality({m \in SubdirNames : p[m] # Absent}) <= MaxSubdirs } }

\* sets of at most MaxFiles files
FileSets == { F \in SUBSET FileNames : Cardinality(F) <= MaxFiles }

\* values of datetime.now().year
CurrentYears == {2026, 2027}

(***************************************************************************)
(* MkTorrent.__init__, lines 39-41: classification of the folder           *)
(***************************************************************************)
InitClassify ==
    /\ \E n \in RootNames, f \in FileSets, d \in SubdirSets :
          folder = [name |-> n, files |-> f, subdirs |-> d]
    /\ now_year = 0
    /\ analyzer = EmptyDict
    /\ first_video = <<>>
    /\ ca_pc = "init"
    /\ probe_info = EmptyDict
    /\ track_idx = 0
    /\ info = EmptyDict
    /\ mi_pc = "idle"
    /\ NoRun

\* self.analyzer = ContentAnalyzer(self.folder_path)
ContentAnalyzerInit ==
    /\ ca_pc = "init"
    /\ \E year \in CurrentYears :
          /\ now_year' = year
          /\ analyzer' = NewContentAnalyzer(folder, year)
    /\ ca_pc' = "analyzed"
    /\ calls' = Append(calls, "classify")
    /\ UNCHANGED <<folder, first_video, mi_vars>>
    /\ UNCHANGED <<pl_pc, torrent_title, cwd_files, outcome, exit_code>>

\* faulty variant of FindFirstVideoFile: the sys.exit(1) after the loop is
\* missing, so that the method returns None and the run goes on
FindFirstVideoFile_NoExit ==
    /\ ca_pc = "analyzed"
    /\ IF VideoFiles(folder) # {}
       THEN first_video' \in FirstVideoCandidates(folder, <<>>)
       ELSE first_video' = first_video
    /\ ca_pc' = "found"
    /\ UNCHANGED <<folder, now_year, analyzer, mi_vars, pl_vars>>

\* first_video = self.analyzer.find_first_video_file()
FindFirstVideoFile ==
    /\ ca_pc = "analyzed"
    /\ IF VideoFiles(folder) # {}
       THEN /\ first_video' \in FirstVideoCandidates(folder, <<>>)
            /\ ca_pc' = "found"
       ELSE \* print("No video files found in the folder."); sys.exit(1)
            /\ first_video' = first_video
            /\ ca_pc' = "exit_1"
    /\ UNCHANGED <<folder, now_year, analyzer, mi_vars, pl_vars>>

NextClassify == ContentAnalyzerInit \/ FindFirstVideoFile

SpecClassify == InitClassify /\ [][NextClassify]_vars

(***************************************************************************)
(* Claims about the classifier (checked under SpecClassify)                *)
(***************************************************************************)
HasAnalyzer == DOMAIN analyzer # {}

IsSerie == HasAnalyzer /\ analyzer.content_type = "serie"

IsFilm == HasAnalyzer /\ analyzer.content_type = "film"

\* has a recognized video extension, in any case
HasVideoExtension(f) ==
    /\ Len(f) >= 4
    /\ Lower(SubSeq(f, Len(f) - 3, Len(f))) \in {<<".", "m", "k", "v">>, <<".", "m", "p", "4">>, <<".", "a", "v", "i">>}

\* the files of the subtree with a recognized video extension, each with the
\* names of the directories that lead to it
RECURSIVE RecognizedVideos(_)
RecognizedVideos(dir) ==
    {<<f>> : f \in {g \in dir.files : HasVideoExtension(g)}}
        \cup UNION {{<<sub.name>> \o p : p \in RecognizedVideos(sub)} : sub \in dir.subdirs}

\* number of recognized video files of the subtree
RecognizedVideoCount(dir) == Cardinality(RecognizedVideos(dir))

\* C1: for a subtree with zero recognized video files, whatever its names
\* are, classification ends the run with the empty-content failure (exit
\* status 1) and hands no result on: no first video is chosen and the run
\* never gets past find_first_video_file.
C1_EmptyContentRejected ==
    RecognizedVideoCount(folder) = 0 =>
        /\ ca_pc \in {"init", "analyzed", "exit_1"}
        /\ first_video = <<>>

\* C1 witness: a root folder named by a series marker, holding files but no
\* video, has been rejected
C1_Witness ==
    /\ ca_pc = "exit_1"
    /\ RecognizedVideoCount(folder) = 0
    /\ MatchesAny(series_patterns, folder.name)
    /\ folder.files # {}
    /\ analyzer.content_type = "serie"

\* position of the '-' of a year range
DashAt(s) == {i \in 1..Len(s) : s[i] = "-"}

HasRangeForm(s) ==
    /\ Cardinality(DashAt(s)) = 1
    /\ LET i == Min(DashAt(s))
       IN  /\ i > 1
           /\ i < Len(s)
           /\ \A k \in (1..Len(s)) \ {i} : IsDigit(s[k])

RangeStart(s) == StrToInt(SubSeq(s, 1, Min(DashAt(s)) - 1))

RangeEnd(s) == StrToInt(SubSeq(s, Min(DashAt(s)) + 1, Len(s)))

\* C2: a Series year_range "<start>-<end>" has start <= end <= current year,
\* also for a start year later than the current year.
C2_YearRangeOrdered ==
    (ca_pc = "found" /\ IsSerie /\ HasRangeForm(analyzer.year_range)) =>
        /\ RangeStart(analyzer.year_range) <= RangeEnd(analyzer.year_range)
        /\ RangeEnd(analyzer.year_range) <= now_year

\* C3: every Series result of an accepted directory has season_count >= 1
\* and episode_count >= 1, episode_count being the number of recognized
\* video files of the subtree.
C3_SeriesCounts ==
    (ca_pc = "found" /\ IsSerie) =>
        /\ analyzer.season_count >= 1
        /\ analyzer.episode_count >= 1
        /\ analyzer.episode_count = RecognizedVideoCount(folder)

\* C3 witness: an accepted directory that is a Series only because of the
\* marker in the root folder's name (one nested video, no other marker)
C3_Witness ==
    /\ ca_pc = "found"
    /\ IsSerie
    /\ MatchesAny(series_patterns, folder.name)
    /\ \A sub \in folder.subdirs : ~MatchesAny(series_patterns, sub.name)
    /\ \A p \in WalkFiles(folder, <<>>) : ~MatchesAny(series_patterns, FileName(p))
    /\ folder.files = {}
    /\ analyzer.episode_count = 1

\* C4: a Movie's year_range is the extracted year, and "Unknown" when no
\* year was extracted.
C4_MovieYearRange ==
    (ca_pc = "found" /\ IsFilm) =>
        analyzer.year_range =
            (IF analyzer.year # <<>> THEN analyzer.year ELSE <<"U", "n", "k", "n", "o", "w", "n">>)

RootMarker == MatchesAny(series_patterns, folder.name)

SubdirMarker == \E sub \in folder.subdirs : MatchesAny(series_patterns, sub.name)

AnyFileMarker ==
    \E p \in WalkFiles(folder, <<>>) : MatchesAny(series_patterns, FileName(p))

VideoFileMarker ==
    \E p \in WalkFiles(folder, <<>>) :
        IsVideoFile(FileName(p)) /\ MatchesAny(series_patterns, FileName(p))

\* C6 as stated: Series exactly when the root name, an immediate
\* subdirectory name or the name of a file of any extension matches a series
\* marker, or there is more than one recognized video file.
C6_SeriesIffAnyFile ==
    ca_pc = "found" =>
        (IsSerie <=>
            (RootMarker \/ SubdirMarker \/ AnyFileMarker
                \/ RecognizedVideoCount(folder) > 1))

\* C6 amended: the file names tested are those of recognized video files
\* only; Movie otherwise.
C6_SeriesIffVideoFile ==
    ca_pc = "found" =>
        /\ IsSerie <=>
              (RootMarker \/ SubdirMarker \/ VideoFileMarker
                  \/ RecognizedVideoCount(folder) > 1)
        /\ IsFilm <=> ~IsSerie

\* C6 witness: one video file three levels down below a directory whose
\* name carries a marker, beside a marked file that is no video: a Movie
C6_Witness ==
    /\ ca_pc = "found"
    /\ IsFilm
    /\ Len(first_video) = 3
    /\ AnyFileMarker
    /\ RecognizedVideoCount(folder) = 1

\* C7: with at least one immediate subdirectory named by a season marker,
\* season_count is the number of those subdirectories.
C7_SeasonFolderCount ==
    (IsSerie /\ \E sub \in folder.subdirs : MatchesAny(season_patterns, sub.name)) =>
        analyzer.season_count =
            Cardinality({sub \in folder.subdirs : MatchesAny(season_patterns, sub.name)})

\* C7 witness: one season folder while the file names carry two season
\* numbers and a deeper directory is named like a season
C7_Witness ==
    /\ IsSerie
    /\ analyzer.season_count = 1
    /\ \E sub \in folder.subdirs :
          /\ MatchesAny(season_patterns, sub.name)
          /\ \E deep \in sub.subdirs : MatchesAny(season_patterns, deep.name)
    /\ Cardinality({SeasonNumber(f) : f \in {g \in folder.files : SeasonTokenAt(g) # {}}}) = 2


\* "(YYYY)" or "(YYYY-YYYY)" stands in s from position k to position last
YearGroup(s, k, last) ==
    /\ k >= 1
    /\ last <= Len(s)
    /\ s[k] = "(" /\ s[last] = ")"
    /\ \/ /\ last = k + 5
          /\ \A i \in (k + 1)..(k + 4) : s[i] \in DOMAIN digit_table
       \/ /\ last = k + 10
          /\ s[k + 5] = "-"
          /\ \A i \in ((k + 1)..(k + 4)) \cup ((k + 6)..(k + 9)) : s[i] \in DOMAIN digit_table

\* where the closing year group of a name "<title> (<year>)" or
\* "<title> (<year>-<year2>)" starts: after the title and one space
ClosingGroup(s) ==
    {k \in {Len(s) - 5, Len(s) - 10} :
        k >= 2 /\ s[k - 1] = " " /\ YearGroup(s, k, Len(s))}

HasTitleYearForm(s) == ClosingGroup(s) # {}

\* the <title> and the first <year> of a name of that form
FormTitle(s) == SubSeq(s, 1, Min(ClosingGroup(s)) - 2)

FormYear(s) == SubSeq(s, Min(ClosingGroup(s)) + 1, Min(ClosingGroup(s)) + 4)

\* s without the spaces at its ends
Trimmed(s) ==
    LET inked == {i \in 1..Len(s) : s[i] # " "}
    IN  IF inked = {} THEN <<>>
        ELSE SubSeq(s, Min(inked), CHOOSE i \in inked : \A j \in inked : j <= i)

\* the title holds a year group of its own
TitleHoldsYearGroup(s) ==
    LET title == FormTitle(s)
    IN  \E k \in 1..Len(title) :
            YearGroup(title, k, k + 5) \/ YearGroup(title, k, k + 10)

RECURSIVE OtherFiles(_)
OtherFiles(dir) ==
    {<<f>> : f \in {g \in dir.files : ~HasVideoExtension(g)}}
        \cup UNION {{<<sub.name>> \o p : p \in OtherFiles(sub)} : sub \in dir.subdirs}

\* C17: every Movie has season_count = 1 and episode_count = 1, whatever the
\* number of files that are no videos and wherever its video file lies
C17_MovieCounts ==
    IsFilm => analyzer.season_count = 1 /\ analyzer.episode_count = 1

\* a Movie whose single video lies two directories down, beside two files
\* that are no videos
C17_Witness ==
    /\ ca_pc = "found"
    /\ IsFilm
    /\ Len(first_video) = 3
    /\ Cardinality(OtherFiles(folder)) = 2
    /\ analyzer.episode_count = 1

NoSeasonFolder == \A sub \in folder.subdirs : ~MatchesAny(season_patterns, sub.name)

\* the season number of the S<NN>E token of s that starts at position i
TokenSeason(s, i) ==
    LET digits == {j \in (i + 1)..Len(s) :
                      \A k \in (i + 1)..j : s[k] \in DOMAIN digit_table}
    IN  StrToInt(SubSeq(s, i + 1, i + Cardinality(digits)))

\* the season numbers of all the S<NN>E tokens of a file name
TokenSeasons(s) == {TokenSeason(s, i) : i \in SeasonTokenAt(s)}

\* the season number of the first S<NN>E token of a file name, if any
FirstTokenSeasons(s) ==
    IF SeasonTokenAt(s) = {} THEN {} ELSE {TokenSeason(s, Min(SeasonTokenAt(s)))}

FloorAtOne(n) == IF n = 0 THEN 1 ELSE n

\* C19 as stated: without a season folder, the season_count of a Series is
\* the number of distinct season numbers of the S<NN>E tokens of the file
\* names of the subtree, and 1 when there are none
C19_SeasonsFromFileNames ==
    (IsSerie /\ NoSeasonFolder) =>
        analyzer.season_count =
            FloorAtOne(Cardinality(UNION {TokenSeasons(FileName(p)) :
                                            p \in WalkFiles(folder, <<>>)}))

\* C19 amended: the tokens read are the first one of the name of each
\* recognized video file
C19_SeasonsFromVideoNames ==
    (IsSerie /\ NoSeasonFolder) =>
        analyzer.season_count =
            FloorAtOne(Cardinality(UNION {FirstTokenSeasons(p[Len(p)]) :
                                            p \in RecognizedVideos(folder)}))

\* S01E01 and s1e02 in the root are one season; with the three first tokens
\* of the files under "Extras" the Series has four
C19_Witness ==
    /\ IsSerie
    /\ NoSeasonFolder
    /\ folder.files = { <<"S", "0", "1", "E", "0", "1", ".", "m", "k", "v">>, <<"s", "1", "e", "0", "2", ".", "M", "P", "4">> }
    /\ analyzer.season_count = 4
(***************************************************************************)
(* MediaInfo (src/torrentmate/mediainfo.py)                                *)
(***************************************************************************)
Unknown == <<"U", "n", "k", "n", "o", "w", "n">>

\* sources of _process_general_track, in list order
sources == << <<"B", "l", "u", "R", "a", "y">>, <<"H", "D", "T", "V">>, <<"W", "E", "B", "-", "D", "L">>, <<"W", "E", "B", "R", "i", "p">>, <<"D", "V", "D", "R", "i", "p">>, <<"B", "D", "R", "i", "p">>, <<"B", "R", "R", "i", "p">> >>

\* the for/else over sources: the first source found in movie_name, else 'Unknown'
DetectSource(movie_name) ==
    LET found == {k \in 1..Len(sources) : Contains(Lower(movie_name), Lower(sources[k]))}
    IN  IF found # {} THEN sources[Min(found)] ELSE Unknown

\* MediaInfo._process_general_track
ProcessGeneralTrack(track, d) ==
    LET d1 == Put(d, "format", Get(track, "Format", Unknown))
        d2 == Put(d1, "duration", Get(track, "Duration", Unknown))
        d3 == Put(d2, "overall_bitrate", Get(track, "OverallBitRate", Unknown))
        d4 == Put(d3, "movie_name", Get(track, "Movie_name", <<>>))
    IN  IF "movie_name" \in DOMAIN track
        THEN Put(d4, "source", DetectSource(track["movie_name"]))
        ELSE d4

\* the friendly codec label of _process_video_track
VideoCodec(format) ==
    IF format = <<"H", "E", "V", "C">> THEN <<"H", "E", "V", "C", " ", "(", "H", ".", "2", "6", "5", ")">>
    ELSE IF format = <<"A", "V", "C">> THEN <<"A", "V", "C", " ", "(", "H", ".", "2", "6", "4", ")">>
    ELSE format

\* the resolution tier of _process_video_track
Resolution(height) ==
    IF height >= 2160 THEN <<"4", "K">>
    ELSE IF height >= 1080 THEN <<"1", "0", "8", "0", "p">>
    ELSE IF height >= 720 THEN <<"7", "2", "0", "p">>
    ELSE IntToStr(height) \o <<"p">>

\* the guard of the resolution block of _process_video_track
HasDimensions(track) == "Width" \in DOMAIN track /\ "Height" \in DOMAIN track

\* MediaInfo._process_video_track
ProcessVideoTrack(track, d) ==
    LET d1 == Put(d, "video_format", Get(track, "Format", Unknown))
        d2 == Put(d1, "video_format_profile", Get(track, "Format_Profile", Unknown))
        d3 == IF "Format" \in DOMAIN track
              THEN Put(d2, "video_codec", VideoCodec(track["Format"]))
              ELSE d2
        d4 == Put(d3, "width", Get(track, "Width", Unknown))
        d5 == Put(d4, "height", Get(track, "Height", Unknown))
        d6 == IF HasDimensions(track)
              THEN Put(d5, "resolution", Resolution(StrToInt(track["Height"])))
              ELSE d5
        d7 == Put(d6, "frame_rate", Get(track, "FrameRate", Unknown))
    IN  Put(d7, "bit_depth", Get(track, "BitDepth", Unknown))

\* the language entry a track adds to a list
TrackLanguage(track) == IF "Language" \in DOMAIN track THEN track["Language"] ELSE Unknown

\* faulty variant of ProcessAudioTrack: a language already listed is not listed again
ProcessAudioTrack_MergesRepeated(track, d) ==
    LET d1 == IF "audio_languages" \notin DOMAIN d
              THEN Put(Put(d, "audio_languages", <<>>), "audio_codecs", <<>>)
              ELSE d
        listed == {d1["audio_languages"][i] : i \in 1..Len(d1["audio_languages"])}
        d2 == IF TrackLanguage(track) \in listed
              THEN d1
              ELSE Put(d1, "audio_languages",
                       Append(d1["audio_languages"], TrackLanguage(track)))
        audio_codec == Get(track, "Format", <<>>) \o <<" ">>
                          \o Replace(Get(track, "Channels", <<>>), <<"c", "h", "a", "n", "n", "e", "l", "s">>, <<"c", "h">>)
    IN  Put(d2, "audio_codecs", Append(d2["audio_codecs"], Strip(audio_codec)))

\* MediaInfo._process_audio_track
ProcessAudioTrack(track, d) ==
    LET d1 == IF "audio_languages" \notin DOMAIN d
              THEN Put(Put(d, "audio_languages", <<>>), "audio_codecs", <<>>)
              ELSE d
        d2 == Put(d1, "audio_languages", Append(d1["audio_languages"], TrackLanguage(track)))
        audio_codec == Get(track, "Format", <<>>) \o <<" ">>
                          \o Replace(Get(track, "Channels", <<>>), <<"c", "h", "a", "n", "n", "e", "l", "s">>, <<"c", "h">>)
    IN  Put(d2, "audio_codecs", Append(d2["audio_codecs"], Strip(audio_codec)))

\* MediaInfo._process_text_track
ProcessTextTrack(track, d) ==
    LET d1 == IF "subtitle_languages" \notin DOMAIN d
              THEN Put(Put(d, "subtitle_languages", <<>>), "subtitle_formats", <<>>)
              ELSE d
        d2 == Put(d1, "subtitle_languages",
                  Append(d1["subtitle_languages"], TrackLanguage(track)))
    IN  Put(d2, "subtitle_formats",
            Append(d2["subtitle_formats"], Get(track, "Format", Unknown)))

\* language_map of _process_language_tag
language_map ==
    (<<"F", "r", "e", "n", "c", "h">> :> <<"F", "R", "E", "N", "C", "H">>) @@ (<<"E", "n", "g", "l", "i", "s", "h">> :> <<"E", "N", "G", "L", "I", "S", "H">>) @@ (<<"f", "r">> :> <<"F", "R", "E", "N", "C", "H">>)
        @@ (<<"e", "n">> :> <<"E", "N", "G", "L", "I", "S", "H">>) @@ (<<"e", "s">> :> <<"S", "P", "A", "N", "I", "S", "H">>) @@ (<<"d", "e">> :> <<"G", "E", "R", "M", "A", "N">>)
        @@ (<<"i", "t">> :> <<"I", "T", "A", "L", "I", "A", "N">>)

\* language_map.get(first_lang, first_lang.upper())
LanguageTag(first_lang) == Get(language_map, first_lang, Upper(first_lang))

\* set(info['audio_languages'])
UniqueLanguages(languages) == {languages[i] : i \in 1..Len(languages)}

\* faulty variant of ProcessLanguageTag: MULTI as soon as there are two audio
\* tracks, len(info['audio_languages']) instead of len(unique_languages)
ProcessLanguageTag_CountTracks(d) ==
    IF "audio_languages" \in DOMAIN d
    THEN IF Len(d["audio_languages"]) > 1
         THEN Put(d, "language_tag", <<"M", "U", "L", "T", "I">>)
         ELSE Put(d, "language_tag", LanguageTag(d["audio_languages"][1]))
    ELSE d

\* MediaInfo._process_language_tag
ProcessLanguageTag(d) ==
    IF "audio_languages" \in DOMAIN d
    THEN LET unique_languages == UniqueLanguages(d["audio_languages"])
         IN  IF Cardinality(unique_languages) > 1
             THEN Put(d, "language_tag", <<"M", "U", "L", "T", "I">>)
             ELSE Put(d, "language_tag",
                      LanguageTag(CHOOSE l \in unique_languages : TRUE))
    ELSE d

\* the guard of the loop of _extract_metadata
HasTrackList ==
    /\ "media" \in DOMAIN probe_info
    /\ "track" \in DOMAIN probe_info["media"]

\* self.info['media']['track'], empty when the loop is skipped
TrackList == IF HasTrackList THEN probe_info["media"]["track"] ELSE <<>>

(***************************************************************************)
(* Inputs of the normalizer: bounded probe outputs                         *)
(***************************************************************************)
\* most tracks of one probe output
MaxTracks == 3

\* a track of the given kind with the given fields
Track(kind, fields) == ("@type" :> kind) @@ fields

GeneralTracks ==
    { Track("General", EmptyDict),
      Track("General", [Format |-> <<"M", "a", "t", "r", "o", "s", "k", "a">>, Duration |-> <<"5", "4", "0", "0", ".", "5">>,
                        OverallBitRate |-> <<"4", "5", "0", "0", "0", "0", "0">>, Movie_name |-> <<"W", "E", "B", "R", "i", "p", " ", "1", "0", "8", "0", "p">>]),
      Track("General", [Format |-> <<"M", "P", "E", "G", "-", "4">>, movie_name |-> <<"W", "E", "B", "R", "i", "p", " ", "1", "0", "8", "0", "p">>]),
      Track("General", [Duration |-> <<"6", "0">>, movie_name |-> <<"m", "y", " ", "b", "d", "r", "i", "p", " ", "o", "f", " ", "a", " ", "B", "L", "U", "R", "A", "Y">>]),
      Track("General", [OverallBitRate |-> <<"9", "0", "0">>, movie_name |-> <<"H", "o", "m", "e", " ", "v", "i", "d", "e", "o">>]) }

VideoTracks ==
    { Track("Video", EmptyDict),
      Track("Video", [Format |-> <<"H", "E", "V", "C">>, Format_Profile |-> <<"M", "a", "i", "n", " ", "1", "0">>,
                      Width |-> <<"3", "8", "4", "0">>, Height |-> <<"2", "1", "6", "0">>,
                      FrameRate |-> <<"2", "3", ".", "9", "7", "6">>, BitDepth |-> <<"1", "0">>]),
      Track("Video", [Format |-> <<"A", "V", "C">>, Width |-> <<"1", "9", "2", "0">>, Height |-> <<"1", "0", "8", "0">>]),
      Track("Video", [Height |-> <<"1", "0", "8", "0">>]),
      Track("Video", [Format |-> <<"V", "P", "9">>, Width |-> <<"1", "2", "8", "0">>, Height |-> <<"7", "2", "0">>]),
      Track("Video", [Width |-> <<"7", "2", "0">>, Height |-> <<"5", "7", "6">>]) }

AudioTracks ==
    { Track("Audio", EmptyDict),
      Track("Audio", [Language |-> <<"F", "r", "e", "n", "c", "h">>, Format |-> <<"A", "A", "C">>,
                      Channels |-> <<"2", " ", "c", "h", "a", "n", "n", "e", "l", "s">>]),
      Track("Audio", [Language |-> <<"f", "r">>, Format |-> <<"A", "C", "-", "3">>, Channels |-> <<"6">>]),
      Track("Audio", [Language |-> <<"e", "n">>, Channels |-> <<"6">>]),
      Track("Audio", [Language |-> <<"E", "n", "g", "l", "i", "s", "h">>]),
      Track("Audio", [Language |-> <<"e", "s">>]),
      Track("Audio", [Language |-> <<"d", "e">>]),
      Track("Audio", [Language |-> <<"i", "t">>]),
      Track("Audio", [Language |-> <<"j", "a">>, Format |-> <<"D", "T", "S">>]) }

TextTracks ==
    { Track("Text", EmptyDict),
      Track("Text", [Language |-> <<"f", "r">>, Format |-> <<"U", "T", "F", "-", "8">>]) }

OtherTracks == { Track("Menu", EmptyDict) }

AllTracks == GeneralTracks \cup VideoTracks \cup AudioTracks \cup TextTracks \cup OtherTracks

\* the parsed JSON without a track list: no 'media' key, or no 'track' key
NoTrackList == {EmptyDict, [media |-> EmptyDict]}

(***************************************************************************)
(* MediaInfo._extract_metadata, one step per track of the loop             *)
(***************************************************************************)
InitNormalize ==
    /\ \/ probe_info \in NoTrackList
       \/ \E n \in 0..MaxTracks :
             \E ts \in [1..n -> AllTracks] : probe_info = [media |-> [track |-> ts]]
    /\ track_idx = 1
    /\ info = EmptyDict
    /\ mi_pc = "loop"
    /\ folder = [name |-> <<>>, files |-> {}, subdirs |-> {}]
    /\ now_year = 0
    /\ analyzer = EmptyDict
    /\ first_video = <<>>
    /\ ca_pc = "idle"
    /\ NoRun

\* the track the loop is at
CurrentTrack == TrackList[track_idx]

InLoop == mi_pc = "loop" /\ track_idx <= Len(TrackList)

\* if track['@type'] == 'General'
StepGeneral ==
    /\ InLoop
    /\ CurrentTrack["@type"] = "General"
    /\ info' = ProcessGeneralTrack(CurrentTrack, info)
    /\ track_idx' = track_idx + 1
    /\ UNCHANGED <<probe_info, mi_pc, ca_vars, pl_vars>>

\* elif track['@type'] == 'Video'
StepVideo ==
    /\ InLoop
    /\ CurrentTrack["@type"] = "Video"
    /\ info' = ProcessVideoTrack(CurrentTrack, info)
    /\ track_idx' = track_idx + 1
    /\ UNCHANGED <<probe_info, mi_pc, ca_vars, pl_vars>>

\* elif track['@type'] == 'Audio'
StepAudio ==
    /\ InLoop
    /\ CurrentTrack["@type"] = "Audio"
    /\ info' = ProcessAudioTrack(CurrentTrack, info)
    /\ track_idx' = track_idx + 1
    /\ UNCHANGED <<probe_info, mi_pc, ca_vars, pl_vars>>

\* elif track['@type'] == 'Text'
StepText ==
    /\ InLoop
    /\ CurrentTrack["@type"] = "Text"
    /\ info' = ProcessTextTrack(CurrentTrack, info)
    /\ track_idx' = track_idx + 1
    /\ UNCHANGED <<probe_info, mi_pc, ca_vars, pl_vars>>

\* a track of any other kind: no branch of the if/elif chain runs
StepOther ==
    /\ InLoop
    /\ CurrentTrack["@type"] \notin {"General", "Video", "Audio", "Text"}
    /\ track_idx' = track_idx + 1
    /\ UNCHANGED <<probe_info, info, mi_pc, ca_vars, pl_vars>>

\* self._process_language_tag(info); return info
FinishMetadata ==
    /\ mi_pc = "loop"
    /\ track_idx > Len(TrackList)
    /\ info' = ProcessLanguageTag(info)
    /\ mi_pc' = "done"
    /\ UNCHANGED <<probe_info, track_idx, ca_vars, pl_vars>>

NextNormalize ==
    StepGeneral \/ StepVideo \/ StepAudio \/ StepText \/ StepOther \/ FinishMetadata

SpecNormalize == InitNormalize /\ [][NextNormalize]_vars

(***************************************************************************)
(* Claims about the normalizer (checked under SpecNormalize)               *)
(***************************************************************************)
Normalized == mi_pc = "done"

ScalarKeys ==
    {"format", "duration", "overall_bitrate", "video_codec", "resolution",
     "width", "height", "language_tag", "source"}

ListKeys == {"audio_codecs", "audio_languages", "subtitle_languages"}

\* the tracks of one kind, in encounter order
TracksOfKind(kind) == SelectSeq(TrackList, LAMBDA t : t["@type"] = kind)

\* C5: normalize returns a map that has every scalar key (holding "Unknown"
\* when the probe gave no value) and every list key (holding the empty
\* sequence when there are no entries), for every track sequence.
C5_EveryKeyResolved ==
    Normalized =>
        /\ \A k \in ScalarKeys : k \in DOMAIN info
        /\ \A k \in ListKeys : k \in DOMAIN info
        /\ TracksOfKind("General") = <<>> =>
              \A k \in {"format", "duration", "overall_bitrate", "source"} :
                  Get(info, k, <<>>) = <<"U", "n", "k", "n", "o", "w", "n">>
        /\ TracksOfKind("Audio") = <<>> =>
              /\ Get(info, "audio_languages", <<"?">>) = <<>>
              /\ Get(info, "audio_codecs", <<"?">>) = <<>>

\* the keyword the claim expects for an embedded name: the first of the
\* priority list found in it without regard to case, else "Unknown"
RECURSIVE FirstKeyword(_, _)
FirstKeyword(keywords, name) ==
    IF keywords = <<>> THEN <<"U", "n", "k", "n", "o", "w", "n">>
    ELSE IF \E i \in 1..Len(name) :
                /\ i + Len(Head(keywords)) - 1 <= Len(name)
                /\ \A k \in 1..Len(Head(keywords)) :
                      LowerChar(name[i + k - 1]) = LowerChar(Head(keywords)[k])
         THEN Head(keywords)
         ELSE FirstKeyword(Tail(keywords), name)

PriorityList ==
    << <<"B", "l", "u", "R", "a", "y">>, <<"H", "D", "T", "V">>, <<"W", "E", "B", "-", "D", "L">>, <<"W", "E", "B", "R", "i", "p">>, <<"D", "V", "D", "R", "i", "p">>, <<"B", "D", "R", "i", "p">>, <<"B", "R", "R", "i", "p">> >>

\* C8: for a General track, source is the first keyword of the priority
\* list found in the embedded name, and "Unknown" when there is none or the
\* name is absent.  (The name is read under the key the code scans.)
C8_SourceFromEmbeddedName ==
    (Normalized /\ Len(TracksOfKind("General")) = 1) =>
        LET g == TracksOfKind("General")[1]
        IN  /\ "source" \in DOMAIN info
            /\ info["source"] =
                  (IF "movie_name" \in DOMAIN g
                   THEN FirstKeyword(PriorityList, g["movie_name"])
                   ELSE <<"U", "n", "k", "n", "o", "w", "n">>)

\* the tier the claim gives a height
HeightTier(h) ==
    CASE h >= 2160 -> <<"4", "K">>
      [] h >= 1080 /\ h < 2160 -> <<"1", "0", "8", "0", "p">>
      [] h >= 720 /\ h < 1080 -> <<"7", "2", "0", "p">>
      [] OTHER -> IntToStr(h) \o <<"p">>

\* C9: a Video track with a numeric height gets its resolution tier,
\* whether or not it carries a width.
C9_ResolutionFromHeight ==
    (Normalized /\ Len(TracksOfKind("Video")) = 1
        /\ "Height" \in DOMAIN TracksOfKind("Video")[1]) =>
        /\ "resolution" \in DOMAIN info
        /\ info["resolution"] = HeightTier(StrToInt(TracksOfKind("Video")[1]["Height"]))

\* the language entry of each audio track, in order ("Unknown" for a track
\* that declares none)
AudioLanguageEntries ==
    LET a == TracksOfKind("Audio")
    IN  [i \in 1..Len(a) |->
            IF "Language" \in DOMAIN a[i] THEN a[i]["Language"] ELSE <<"U", "n", "k", "n", "o", "w", "n">>]

\* the display tag the claim gives a single language
DisplayTag(l) ==
    CASE l \in {<<"F", "r", "e", "n", "c", "h">>, <<"f", "r">>} -> <<"F", "R", "E", "N", "C", "H">>
      [] l \in {<<"E", "n", "g", "l", "i", "s", "h">>, <<"e", "n">>} -> <<"E", "N", "G", "L", "I", "S", "H">>
      [] l = <<"e", "s">> -> <<"S", "P", "A", "N", "I", "S", "H">>
      [] l = <<"d", "e">> -> <<"G", "E", "R", "M", "A", "N">>
      [] l = <<"i", "t">> -> <<"I", "T", "A", "L", "I", "A", "N">>
      [] OTHER -> Upper(l)

Entries(key) == IF key \in DOMAIN info THEN info[key] ELSE <<>>

\* the language a track declares, "Unknown" when it declares none
DeclaredLanguage(t) == IF "Language" \in DOMAIN t THEN t["Language"] ELSE <<"U", "n", "k", "n", "o", "w", "n">>

\* s begins with p
BeginsWith(s, p) == Len(s) >= Len(p) /\ SubSeq(s, 1, Len(p)) = p

\* C20: after normalizing, audio_languages and audio_codecs have one entry per
\* Audio track in encounter order, "Unknown" standing for a track without a
\* language; subtitle_languages has one entry per Text track in encounter
\* order; tracks of other kinds add nothing
C20_OneEntryPerTrack ==
    Normalized =>
        LET audio == TracksOfKind("Audio")
            text == TracksOfKind("Text")
        IN  /\ Len(Entries("audio_languages")) = Len(audio)
            /\ Len(Entries("audio_codecs")) = Len(audio)
            /\ Len(Entries("subtitle_languages")) = Len(text)
            /\ \A i \in 1..Len(audio) :
                  /\ Entries("audio_languages")[i] = DeclaredLanguage(audio[i])
                  /\ "Format" \in DOMAIN audio[i] =>
                        BeginsWith(Entries("audio_codecs")[i], audio[i]["Format"])
            /\ \A i \in 1..Len(text) :
                  Entries("subtitle_languages")[i] = DeclaredLanguage(text[i])

\* two Audio tracks around a track of another kind, the first without a
\* language: two entries, "Unknown" first
C20_Witness ==
    /\ Normalized
    /\ Len(TrackList) = 3
    /\ TrackList[1]["@type"] = "Audio" /\ "Language" \notin DOMAIN TrackList[1]
    /\ TrackList[2]["@type"] \notin {"Audio", "Text"}
    /\ TrackList[3]["@type"] = "Audio" /\ "Language" \in DOMAIN TrackList[3]
    /\ info["audio_languages"] = << <<"U", "n", "k", "n", "o", "w", "n">>, TrackList[3]["Language"] >>

\* the scalar fields derived from a General track and from a Video track
GeneralFields == {"format", "duration", "overall_bitrate", "source"}

VideoFields == {"video_codec", "width", "height", "resolution"}

\* what a map holds under a key: the one value, or nothing
Held(d, k) == IF k \in DOMAIN d THEN {d[k]} ELSE {}

\* the last track of a kind
LastOfKind(kind) == TracksOfKind(kind)[Len(TracksOfKind(kind))]

\* C21: when the track sequence has more than one General track, or more
\* than one Video track, every scalar field of that kind holds in the final
\* map what the last track of that kind gives it, and nothing left over from
\* an earlier track
C21_LastTrackWins ==
    Normalized =>
        /\ Len(TracksOfKind("General")) > 1 =>
              \A k \in GeneralFields :
                  Held(info, k) = Held(ProcessGeneralTrack(LastOfKind("General"), EmptyDict), k)
        /\ Len(TracksOfKind("Video")) > 1 =>
              \A k \in VideoFields :
                  Held(info, k) = Held(ProcessVideoTrack(LastOfKind("Video"), EmptyDict), k)

\* the Audio tracks that declare a language
DeclaringAudio == SelectSeq(TracksOfKind("Audio"), LAMBDA t : "Language" \in DOMAIN t)

\* two declared languages differ: they are not two spellings of one language
\* ("French" and "fr" are one)
LanguagesDiffer(l1, l2) == DisplayTag(l1) # DisplayTag(l2)

\* C23: language_tag is "MULTI" only if at least two audio tracks declare
\* languages that differ from each other; a track without a language, and
\* two spellings of one language, do not make a file MULTI
C23_MultiNeedsTwoLanguages ==
    (Normalized /\ Get(info, "language_tag", <<>>) = <<"M", "U", "L", "T", "I">>) =>
        \E i, j \in 1..Len(DeclaringAudio) :
            LanguagesDiffer(DeclaringAudio[i]["Language"], DeclaringAudio[j]["Language"])

(***************************************************************************)
(* ContentGenerator (src/mktorrent/contentgenerator.py): title, report     *)
(* (NFO) and markup (BBCode).  A document is the dict of the values its    *)
(* template interpolates; the fixed text of the template is left out.      *)
(* The torrentmate package holds the same title and figures code.          *)
(***************************************************************************)
\* sep.join(items)
RECURSIVE Join(_, _)
Join(sep, items) ==
    IF Len(items) = 0 THEN <<>>
    ELSE IF Len(items) = 1 THEN items[1]
    ELSE items[1] \o sep \o Join(sep, Tail(items))

\* s.isdigit()
IsDigitString(s) == Len(s) > 0 /\ \A i \in 1..Len(s) : IsDigit(s[i])

\* s.replace('.', '', 1)
RECURSIVE RemoveFirstDot(_)
RemoveFirstDot(s) ==
    IF Len(s) = 0 THEN s
    ELSE IF s[1] = "." THEN Tail(s)
    ELSE <<s[1]>> \o RemoveFirstDot(Tail(s))

\* the digits of s before its first '.'
RECURSIVE IntegerPart(_)
IntegerPart(s) ==
    IF Len(s) = 0 \/ s[1] = "." THEN <<>>
    ELSE <<s[1]>> \o IntegerPart(Tail(s))

\* ContentGenerator.generate_torrent_title
GenerateTorrentTitle(an, mi) ==
    LET tail == Get(mi, "language_tag", <<>>) \o <<" ", "-", " ">>
                  \o Get(mi, "source", <<>>) \o <<" ", "-", " ">>
                  \o Get(mi, "resolution", <<>>) \o <<" ", "-", " ">>
                  \o FirstToken(Get(mi, "video_codec", <<>>))
    IN  IF an.content_type = "serie"
        THEN an.title \o <<" ", "(">> \o an.year_range \o <<")", " ", "-", " ", "I", "n", "t", "é", "g", "r", "a", "l", "e", " ", "-", " ">> \o tail
        ELSE an.title \o <<" ", "(">> \o an.year \o <<")", " ", "-", " ">> \o tail

\* bitrate = "?" unless overall_bitrate.isdigit(): str(int(int(raw) / 1000));
\* the float quotient truncates to raw div 1000 for every raw below 2^42
BitrateFigure(mi) ==
    LET raw == Get(mi, "overall_bitrate", <<"0">>)
    IN  IF IsDigitString(raw) THEN IntToStr(StrToInt(raw) \div 1000) ELSE <<"?">>

\* duration = "?" unless duration.replace('.', '', 1).isdigit():
\* str(int(float(raw) / 60)); for digits with at most one '.', int() of the
\* quotient is the integer part of raw, div 60
DurationFigure(mi) ==
    LET raw == Get(mi, "duration", <<"0">>)
    IN  IF IsDigitString(RemoveFirstDot(raw))
        THEN IntToStr(StrToInt(IntegerPart(raw)) \div 60)
        ELSE <<"?">>

\* the "Résolution" line: resolution (widthxheight)
ResolutionLine(mi) ==
    Get(mi, "resolution", Unknown) \o <<" ", "(">> \o Get(mi, "width", Unknown)
        \o <<"x">> \o Get(mi, "height", Unknown) \o <<")">>

\* the values the technical lines share between the report and the markup
TechnicalLines(mi) ==
    [format |-> Get(mi, "format", Unknown),
     source |-> Get(mi, "source", Unknown),
     resolution |-> ResolutionLine(mi),
     video_codec |-> Get(mi, "video_codec", Unknown),
     bitrate |-> BitrateFigure(mi),
     audio_codecs |-> Join(<<",", " ">>, Get(mi, "audio_codecs", <<Unknown>>)),
     subtitles |-> Join(<<",", " ">>, Get(mi, "subtitle_languages", << <<"N", "o", "n", "e">> >>))]

\* the "Saisons" line of the series report
SeasonsLine(an) ==
    IntToStr(an.season_count) \o <<" ", "s", "a", "i", "s", "o", "n">>
        \o (IF an.season_count > 1 THEN <<"s">> ELSE <<>>)
        \o <<" ", "(">> \o IntToStr(an.episode_count) \o <<" ", "é", "p", "i", "s", "o", "d", "e">>
        \o (IF an.episode_count > 1 THEN <<"s">> ELSE <<>>) \o <<")">>

\* ContentGenerator.generate_nfo_content (_generate_serie_nfo, _generate_film_nfo)
GenerateNfoContent(an, mi) ==
    LET year == IF an.content_type = "serie" THEN an.year_range ELSE an.year
        common == [kind |-> "nfo",
                   header |-> Upper(an.title) \o <<" ", "(">> \o year \o <<")">>,
                   title |-> an.title,
                   year |-> year,
                   language |-> Get(mi, "language_tag", Unknown),
                   duration |-> DurationFigure(mi),
                   technical |-> TechnicalLines(mi)]
    IN  IF an.content_type = "serie"
        THEN common @@ [seasons |-> SeasonsLine(an),
                        last_season |-> IntToStr(an.season_count),
                        version |-> Get(mi, "language_tag", <<>>)]
        ELSE common

\* ContentGenerator.generate_bbcode_content (_generate_serie_bbcode,
\* _generate_film_bbcode)
GenerateBbcodeContent(an, mi) ==
    LET year == IF an.content_type = "serie" THEN an.year_range ELSE an.year
        common == [kind |-> "bbcode",
                   torrent_title |-> GenerateTorrentTitle(an, mi),
                   year |-> year,
                   languages |-> Get(mi, "language_tag", Unknown) \o <<" ", "(">>
                                   \o Join(<<",", " ">>, Get(mi, "audio_languages", <<Unknown>>))
                                   \o <<")">>,
                   technical |-> TechnicalLines(mi)]
    IN  IF an.content_type = "serie"
        THEN common @@ [episode_count |-> IntToStr(an.episode_count),
                        season_count |-> IntToStr(an.season_count)]
        ELSE common @@ [duration |-> DurationFigure(mi)]

(***************************************************************************)
(* main() of src/mktorrent/mktorrent.py: one run of the program            *)
(***************************************************************************)
\* the folders handed to a run
PipelineFolders ==
    { [name |-> <<"S", "h", "o", "w", " ", "(", "2", "0", "1", "0", "-", "2", "0", "1", "5", ")">>, files |-> {},
       subdirs |-> { [name |-> <<"S", "a", "i", "s", "o", "n", " ", "1">>, files |-> {<<"S", "0", "2", "E", "0", "1", ".", "a", "v", "i">>}, subdirs |-> {}] }],
      [name |-> <<"M", "o", "v", "i", "e", " ", "T", "i", "t", "l", "e", " ", "(", "1", "9", "9", "9", ")">>, files |-> {<<"e", "p", "1", ".", "m", "k", "v">>, <<"n", "o", "t", "e", "s", ".", "t", "x", "t">>}, subdirs |-> {}],
      [name |-> <<"F", "i", "l", "m">>, files |-> {<<"e", "p", "1", ".", "m", "k", "v">>}, subdirs |-> {}],
      [name |-> <<"O", "l", "d", " ", "1", "9", "8", "7">>, files |-> {<<"S", "0", "1", "E", "0", "1", ".", "m", "k", "v">>, <<"s", "1", "e", "0", "2", ".", "M", "P", "4">>}, subdirs |-> {}],
      [name |-> <<"S", "a", "i", "s", "o", "n", " ", "2">>, files |-> {}, subdirs |-> {}],
      [name |-> <<"N", "e", "x", "t", " ", "(", "2", "0", "3", "1", ")">>, files |-> {<<"n", "o", "t", "e", "s", ".", "t", "x", "t">>}, subdirs |-> {}] }

\* General tracks with numeric, fractional and non-numeric figures
PipelineGenerals ==
    { Track("General", EmptyDict),
      Track("General", [Format |-> <<"M", "a", "t", "r", "o", "s", "k", "a">>, Duration |-> <<"5", "4", "0", "0", ".", "5">>,
                        OverallBitRate |-> <<"4", "5", "0", "0", "0", "0", "0">>, movie_name |-> <<"W", "E", "B", "R", "i", "p", " ", "1", "0", "8", "0", "p">>]),
      Track("General", [Duration |-> <<"5", "9", ".", "9">>, OverallBitRate |-> <<"9", "9", "9">>]),
      Track("General", [Duration |-> <<"1", "2", "0">>, OverallBitRate |-> <<"1", "2", "8", ".", "5">>]),
      Track("General", [Duration |-> <<"1", ".", "5", ".", "2">>, OverallBitRate |-> <<>>]),
      Track("General", [Duration |-> <<".", "5">>, OverallBitRate |-> <<"1", "0", "0", "0">>]) }

\* the other tracks of a probed file
PipelineTracks ==
    { Track("Video", [Format |-> <<"H", "E", "V", "C">>, Width |-> <<"3", "8", "4", "0">>, Height |-> <<"2", "1", "6", "0">>]),
      Track("Video", [Height |-> <<"1", "0", "8", "0">>]),
      Track("Audio", [Language |-> <<"F", "r", "e", "n", "c", "h">>, Format |-> <<"A", "A", "C">>,
                      Channels |-> <<"2", " ", "c", "h", "a", "n", "n", "e", "l", "s">>]),
      Track("Audio", [Language |-> <<"e", "n">>, Channels |-> <<"6">>]),
      Track("Text", [Language |-> <<"f", "r">>, Format |-> <<"U", "T", "F", "-", "8">>]),
      Track("Menu", EmptyDict) }

\* what json.loads gives for the probed file: no track list, or at most one
\* General track followed by at most two other tracks
PipelineProbes ==
    NoTrackList
      \cup { [media |-> [track |-> g \o ts]] :
               g \in {<<>>} \cup {<<t>> : t \in PipelineGenerals},
               ts \in {<<>>} \cup {<<t>> : t \in PipelineTracks}
                        \cup {<<t, u>> : t \in PipelineTracks, u \in PipelineTracks} }

InitPipeline ==
    /\ folder \in PipelineFolders
    /\ now_year = 0
    /\ analyzer = EmptyDict
    /\ first_video = <<>>
    /\ ca_pc = "idle"
    /\ probe_info = EmptyDict
    /\ track_idx = 0
    /\ info = EmptyDict
    /\ mi_pc = "idle"
    /\ pl_pc = "start"
    /\ torrent_title = <<>>
    /\ cwd_files = EmptyDict
    /\ outcome = EmptyDict
    /\ calls = <<>>
    /\ exit_code = -1

\* MkTorrent.__init__, lines 32-37: the folder argument is a directory, or
\* ValueError is raised
ValidateFolder ==
    /\ pl_pc = "start"
    /\ \E is_dir \in BOOLEAN :
          IF is_dir
          THEN pl_pc' = "components" /\ ca_pc' = "init"
          ELSE pl_pc' = "raised" /\ ca_pc' = ca_pc
    /\ UNCHANGED <<folder, now_year, analyzer, first_video, mi_vars>>
    /\ UNCHANGED <<torrent_title, cwd_files, outcome, calls, exit_code>>

\* MediaInfo(first_video): _run_mediainfo.  CalledProcessError and
\* JSONDecodeError end in sys.exit(1); a missing mediainfo executable raises
\* FileNotFoundError, which _run_mediainfo does not catch
RunMediainfo ==
    /\ pl_pc = "components"
    /\ ca_pc = "found"
    /\ mi_pc = "idle"
    /\ calls' = Append(calls, "probe")
    /\ \E result \in {"parsed", "called_process_error", "json_decode_error", "not_found"} :
          IF result = "parsed"
          THEN /\ probe_info' \in PipelineProbes
               /\ track_idx' = 1
               /\ info' = EmptyDict
               /\ mi_pc' = "loop"
          ELSE /\ mi_pc' = (IF result = "not_found" THEN "raised" ELSE "exit_1")
               /\ UNCHANGED <<probe_info, track_idx, info>>
    /\ UNCHANGED <<ca_vars, pl_pc, torrent_title, cwd_files, outcome, exit_code>>

\* MkTorrent.__init__, lines 43-44: the generator and the title
RenderTitle ==
    /\ pl_pc = "components"
    /\ mi_pc = "done"
    /\ torrent_title' = GenerateTorrentTitle(analyzer, info)
    /\ calls' = Append(calls, "title")
    /\ pl_pc' = "create_nfo"
    /\ UNCHANGED <<ca_vars, mi_vars, cwd_files, outcome, exit_code>>

\* open(name, 'w') and f.write(content): the file written, or an exception
\* before the file exists, or after open() made it empty
WriteOutcomes == {"written", "open_failed", "write_failed"}

WriteFile(files, name, content, result) ==
    IF result = "written" THEN Put(files, name, content)
    ELSE IF result = "write_failed" THEN Put(files, name, EmptyDict)
    ELSE files

\* faulty variant of CreateNfo: no try/except, a failed write leaves create_all
CreateNfo_Unguarded ==
    /\ pl_pc = "create_nfo"
    /\ calls' = Append(calls, "nfo")
    /\ \E result \in WriteOutcomes :
          /\ cwd_files' = WriteFile(cwd_files, torrent_title \o <<".", "n", "f", "o">>,
                                    GenerateNfoContent(analyzer, info), result)
          /\ outcome' = Put(outcome, "nfo", result = "written")
          /\ pl_pc' = (IF result = "written" THEN "create_bbcode" ELSE "raised")
    /\ UNCHANGED <<ca_vars, mi_vars, torrent_title, exit_code>>

\* MkTorrent.create_nfo
CreateNfo ==
    /\ pl_pc = "create_nfo"
    /\ calls' = Append(calls, "nfo")
    /\ \E result \in WriteOutcomes :
          /\ cwd_files' = WriteFile(cwd_files, torrent_title \o <<".", "n", "f", "o">>,
                                    GenerateNfoContent(analyzer, info), result)
          /\ outcome' = Put(outcome, "nfo", result = "written")
    /\ pl_pc' = "create_bbcode"
    /\ UNCHANGED <<ca_vars, mi_vars, torrent_title, exit_code>>

\* MkTorrent.create_bbcode
CreateBbcode ==
    /\ pl_pc = "create_bbcode"
    /\ calls' = Append(calls, "bbcode")
    /\ \E result \in WriteOutcomes :
          /\ cwd_files' = WriteFile(cwd_files, torrent_title \o <<".", "t", "x", "t">>,
                                    GenerateBbcodeContent(analyzer, info), result)
          /\ outcome' = Put(outcome, "bbcode", result = "written")
    /\ pl_pc' = "create_torrent"
    /\ UNCHANGED <<ca_vars, mi_vars, torrent_title, exit_code>>

\* what subprocess.run of the packager ends in
PackagerOutcomes == {"created", "called_process_error", "not_found", "other_error"}

\* faulty variant of CreateTorrent: a failed packaging removes the documents
CreateTorrent_CleansUp ==
    /\ pl_pc = "create_torrent"
    /\ calls' = Append(calls, "packager")
    /\ \E result \in PackagerOutcomes :
          /\ cwd_files' =
                (IF result = "created"
                 THEN Put(cwd_files, torrent_title \o <<".", "t", "o", "r", "r", "e", "n", "t">>,
                          [kind |-> "torrent", source |-> folder.name])
                 ELSE EmptyDict)
          /\ IF result = "other_error"
             THEN outcome' = outcome /\ pl_pc' = "raised"
             ELSE outcome' = Put(outcome, "torrent", result = "created") /\ pl_pc' = "return"
    /\ UNCHANGED <<ca_vars, mi_vars, torrent_title, exit_code>>

\* MkTorrent.create_torrent: subprocess.run(['mktorrent', ...], check=True);
\* CalledProcessError and FileNotFoundError give False, any other exception
\* leaves create_all and reaches the except clause of main
CreateTorrent ==
    /\ pl_pc = "create_torrent"
    /\ calls' = Append(calls, "packager")
    /\ \E result \in PackagerOutcomes :
          /\ cwd_files' =
                (IF result = "created"
                 THEN Put(cwd_files, torrent_title \o <<".", "t", "o", "r", "r", "e", "n", "t">>,
                          [kind |-> "torrent", source |-> folder.name])
                 ELSE cwd_files)
          /\ IF result = "other_error"
             THEN outcome' = outcome /\ pl_pc' = "raised"
             ELSE outcome' = Put(outcome, "torrent", result = "created") /\ pl_pc' = "return"
    /\ UNCHANGED <<ca_vars, mi_vars, torrent_title, exit_code>>

\* create_all, line 120
AllSucceeded_AnySucceeded(results) == results["nfo"] \/ results["bbcode"] \/ results["torrent"]

AllSucceeded(results) == results["nfo"] /\ results["bbcode"] /\ results["torrent"]

\* main, lines 136-143: return 0 if create_all() succeeded, else 1
MainReturn ==
    /\ pl_pc = "return"
    /\ exit_code' = (IF AllSucceeded(outcome) THEN 0 ELSE 1)
    /\ pl_pc' = "exited"
    /\ UNCHANGED <<ca_vars, mi_vars, torrent_title, cwd_files, outcome, calls>>

\* main, lines 144-146: except Exception: return 1
MainExcept ==
    /\ \/ pl_pc = "raised"
       \/ pl_pc = "components" /\ mi_pc = "raised"
    /\ exit_code' = 1
    /\ pl_pc' = "exited"
    /\ UNCHANGED <<ca_vars, mi_vars, torrent_title, cwd_files, outcome, calls>>

\* faulty variant of SystemExit: main swallows the exit and goes on to the documents
SystemExit_Swallowed ==
    /\ pl_pc = "components"
    /\ ca_pc = "exit_1" \/ mi_pc = "exit_1"
    /\ exit_code' = exit_code
    /\ pl_pc' = "create_nfo"
    /\ UNCHANGED <<ca_vars, mi_vars, torrent_title, cwd_files, outcome, calls>>

\* sys.exit(1) of find_first_video_file or _run_mediainfo: SystemExit is not an
\* Exception, it leaves main and ends the process with code 1
SystemExit ==
    /\ pl_pc = "components"
    /\ ca_pc = "exit_1" \/ mi_pc = "exit_1"
    /\ exit_code' = 1
    /\ pl_pc' = "exited"
    /\ UNCHANGED <<ca_vars, mi_vars, torrent_title, cwd_files, outcome, calls>>

NextPipeline ==
    \/ ValidateFolder
    \/ ContentAnalyzerInit
    \/ FindFirstVideoFile
    \/ RunMediainfo
    \/ StepGeneral
    \/ StepVideo
    \/ StepAudio
    \/ StepText
    \/ StepOther
    \/ FinishMetadata
    \/ RenderTitle
    \/ CreateNfo
    \/ CreateBbcode
    \/ CreateTorrent
    \/ MainReturn
    \/ MainExcept
    \/ SystemExit

SpecPipeline == InitPipeline /\ [][NextPipeline]_vars

(***************************************************************************)
(* Properties of a run of main()                                           *)
(***************************************************************************)
ReportName == torrent_title \o <<".", "n", "f", "o">>

MarkupName == torrent_title \o <<".", "t", "x", "t">>

TorrentName == torrent_title \o <<".", "t", "o", "r", "r", "e", "n", "t">>

\* the file exists and holds a document
Written(name) == name \in DOMAIN cwd_files /\ cwd_files[name] # EmptyDict

Invoked(stage) == \E i \in 1..Len(calls) : calls[i] = stage

TimesInvoked(stage) == Cardinality({i \in 1..Len(calls) : calls[i] = stage})

ClassificationFailed == ca_pc = "exit_1"

ExtractionFailed == mi_pc \in {"exit_1", "raised"}

\* every stage of the run did its work
EveryStageSucceeded ==
    /\ ca_pc = "found"
    /\ mi_pc = "done"
    /\ Written(ReportName)
    /\ Written(MarkupName)
    /\ TorrentName \in DOMAIN cwd_files

\* C11: a run that has ended has exit code 0 exactly when classification,
\* probing, the report, the markup document and the packaging all succeeded,
\* and exit code 1 otherwise
C11_ExitCode ==
    pl_pc = "exited" =>
        /\ exit_code \in {0, 1}
        /\ exit_code = 0 <=> EveryStageSucceeded

\* a run that went through every stage and ended with exit code 0
C11_Witness ==
    /\ pl_pc = "exited"
    /\ exit_code = 0
    /\ EveryStageSucceeded

\* C12: once classification or metadata extraction has failed, no title is
\* rendered, no document is written, the packager is not invoked, and no
\* stage has been attempted twice
C12_AbortBeforeRendering ==
    (ClassificationFailed \/ ExtractionFailed) =>
        /\ torrent_title = <<>>
        /\ cwd_files = EmptyDict
        /\ ~Invoked("title") /\ ~Invoked("nfo") /\ ~Invoked("bbcode")
        /\ ~Invoked("packager")
        /\ TimesInvoked("classify") <= 1
        /\ TimesInvoked("probe") <= 1

\* a run that ended after the probe failed
C12_Witness ==
    /\ pl_pc = "exited"
    /\ ExtractionFailed
    /\ Invoked("probe")
    /\ exit_code = 1

\* the documents a step leaves as they were
DocumentsKept ==
    \A name \in DOMAIN cwd_files :
        name \in DOMAIN cwd_files' /\ cwd_files'[name] = cwd_files[name]

\* C13: the packager is invoked only after the report and the markup
\* document were written or attempted; a failed packaging leaves the documents
\* as they are, and the run then ends with failure
C13_PackagingKeepsDocuments ==
    [][ /\ (~Invoked("packager") /\ Invoked("packager")')
            => (Invoked("nfo") /\ Invoked("bbcode"))
        /\ Invoked("packager")' => DocumentsKept
        /\ (pl_pc' = "exited" /\ Invoked("packager")' /\ TorrentName' \notin DOMAIN cwd_files')
            => exit_code' = 1 ]_vars

\* a run ended in failure by the packager alone, with both documents written
C13_Witness ==
    /\ pl_pc = "exited"
    /\ exit_code = 1
    /\ Invoked("packager")
    /\ TorrentName \notin DOMAIN cwd_files
    /\ Written(ReportName)
    /\ Written(MarkupName)

\* the first whitespace-delimited token of s
RECURSIVE FirstWord(_)
FirstWord(s) ==
    IF Len(s) = 0 THEN <<>>
    ELSE IF IsSpace(s[1]) THEN FirstWord(Tail(s))
    ELSE IF \E i \in 1..Len(s) : IsSpace(s[i])
         THEN SubSeq(s, 1, Min({i \in 1..Len(s) : IsSpace(s[i])}) - 1)
         ELSE s

\* the resolved value of an attribute: the probe's, or the default "Unknown"
Resolved(key) == IF key \in DOMAIN info THEN info[key] ELSE <<"U", "n", "k", "n", "o", "w", "n">>

\* the attributes the title shows after the year
TitleAttributes ==
    Resolved("language_tag") \o <<" ", "-", " ">> \o Resolved("source") \o <<" ", "-", " ">>
        \o Resolved("resolution") \o <<" ", "-", " ">> \o FirstWord(Resolved("video_codec"))

\* C14: the rendered title is "<title> (<year_range>) - Intégrale - <language_tag>
\* - <source> - <resolution> - <codec token>" for a Series and "<title> (<year>)
\* - <language_tag> - <source> - <resolution> - <codec token>" for a Movie, every
\* attribute being its resolved value, "Unknown" when the probe gave none
C14_TitleForm ==
    Invoked("title") =>
        torrent_title =
            (IF analyzer.content_type = "serie"
             THEN analyzer.title \o <<" ", "(">> \o analyzer.year_range \o <<")", " ", "-", " ", "I", "n", "t", "é", "g", "r", "a", "l", "e", " ", "-", " ">>
                    \o TitleAttributes
             ELSE analyzer.title \o <<" ", "(">> \o analyzer.year \o <<")", " ", "-", " ">> \o TitleAttributes)

\* the General tracks of the probe output, in order
ProbedGenerals ==
    IF HasTrackList
    THEN SelectSeq(TrackList, LAMBDA t : t["@type"] = "General")
    ELSE <<>>

\* the raw value the probe gave under a field of the General track, or the
\* string "absent" when there is no such track or field
RawGeneral(field) ==
    IF Len(ProbedGenerals) > 0 /\ field \in DOMAIN ProbedGenerals[Len(ProbedGenerals)]
    THEN ProbedGenerals[Len(ProbedGenerals)][field]
    ELSE <<"a", "b", "s", "e", "n", "t">>

\* a non-negative integer in decimal digits
IsIntegerText(s) == Len(s) > 0 /\ \A i \in 1..Len(s) : s[i] \in DOMAIN digit_table

\* seconds, possibly fractional: digits with at most one decimal point
IsSecondsText(s) ==
    /\ \A i \in 1..Len(s) : s[i] \in DOMAIN digit_table \/ s[i] = "."
    /\ Cardinality({i \in 1..Len(s) : s[i] = "."}) <= 1
    /\ \E i \in 1..Len(s) : s[i] \in DOMAIN digit_table

\* the whole seconds of a seconds text
WholeSeconds(s) ==
    LET dots == {i \in 1..Len(s) : s[i] = "."}
    IN  StrToInt(IF dots = {} THEN s ELSE SubSeq(s, 1, Min(dots) - 1))

ExpectedBitrate ==
    LET raw == RawGeneral("OverallBitRate")
    IN  IF IsIntegerText(raw) THEN IntToStr(StrToInt(raw) \div 1000) ELSE <<"?">>

ExpectedDuration ==
    LET raw == RawGeneral("Duration")
    IN  IF IsSecondsText(raw) THEN IntToStr(WholeSeconds(raw) \div 60) ELSE <<"?">>

\* C15: in the written report the bitrate figure is the raw overall bitrate
\* div 1000 and the duration figure the raw seconds div 60 when the raw value
\* is numeric, and each is "?" when it is not numeric, is absent from the probe
\* output, or no General track exists
C15_ReportFigures ==
    Written(ReportName) =>
        /\ cwd_files[ReportName].technical.bitrate = ExpectedBitrate
        /\ cwd_files[ReportName].duration = ExpectedDuration

\* the strings a written report prints for the language and the source
ReportLanguage == cwd_files[ReportName].language

ReportSource == cwd_files[ReportName].technical.source

\* a line "<value> (<detail>)" prints value
Prints(line, value) == BeginsWith(line, value \o <<" ", "(">>)

\* the resolutions a "<resolution> (<width>x<height>)" line may be printing
PrintedResolutions(line) == {r \in {SubSeq(line, 1, k) : k \in 0..Len(line)} : Prints(line, r)}

\* C22: the language tag, source and resolution printed in the rendered title
\* are the strings printed for them in the report and in the markup rendered
\* from the same classification and attribute map, also when the map lacks
\* those keys
C22_TitleAgreesWithDocuments ==
    (Written(ReportName) /\ Written(MarkupName)) =>
        LET report == cwd_files[ReportName]
            markup == cwd_files[MarkupName]
        IN  /\ Prints(markup.languages, ReportLanguage)
            /\ markup.technical.source = ReportSource
            /\ markup.technical.resolution = report.technical.resolution
            /\ \E r \in PrintedResolutions(report.technical.resolution) :
                  Contains(torrent_title,
                           <<" ", "-", " ">> \o ReportLanguage \o <<" ", "-", " ">> \o ReportSource
                             \o <<" ", "-", " ">> \o r \o <<" ", "-", " ">>)

\* the output steps attempted so far, in the order of their attempts
OutputSteps == SelectSeq(calls, LAMBDA c : c \in {"nfo", "bbcode", "packager"})

\* the order of the output steps
OutputOrder == <<"nfo", "bbcode", "packager">>

\* where a run stands after n output steps: at the next one, or past the last
AtOutputStep(n) ==
    CASE n = 0 -> pl_pc = "create_nfo"
      [] n = 1 -> pl_pc = "create_bbcode"
      [] n = 2 -> pl_pc = "create_torrent"
      [] OTHER -> pl_pc \in {"return", "raised", "exited"}

\* C24: once classification, probing and title rendering have succeeded, the
\* run attempts the report, the markup and the packaging, each exactly once and
\* in this order, whatever the outcome of the report and of the markup write:
\* the steps attempted so far are the first ones of the order, the run stands
\* at the next one, and a run that has ended has attempted all three
C24_ThreeOutputSteps ==
    Invoked("title") =>
        /\ Len(OutputSteps) <= 3
        /\ OutputSteps = SubSeq(OutputOrder, 1, Len(OutputSteps))
        /\ AtOutputStep(Len(OutputSteps))
        /\ pl_pc = "exited" => OutputSteps = OutputOrder

\* a run that has ended with both document writes failed and the packager
\* attempted after them
C24_Witness ==
    /\ pl_pc = "exited"
    /\ Invoked("title")
    /\ outcome["nfo"] = FALSE
    /\ outcome["bbcode"] = FALSE
    /\ OutputSteps = <<"nfo", "bbcode", "packager">>
====
